---- MODULE Spec2Model ----
(***************************************************************************)
(* A model of the crius circuit breaker: the rolling window of sample      *)
(* buckets (src/src/window.rs), the statistics read over it                *)
(* (src/src/circuit_breaker_stats.rs), the breaker's allow/deny decision   *)
(* (src/src/circuit_breaker.rs) and Command::run (src/src/command.rs).     *)
(*                                                                         *)
(* Time is the monotonic clock (Instant) in milliseconds.  Every           *)
(* Instant::now() of the code is a separate clock read: a handler that     *)
(* reads the clock several times gets a nondecreasing sequence of          *)
(* readings, so the clock may advance between two reads of one call.       *)
(* An Instant is a signed count from the clock's origin, so one before the  *)
(* origin is representable (as on Linux): Instant - Duration and           *)
(* Instant + Duration panic only when the result leaves the signed range.  *)
(* A Duration is unsigned whole seconds and the nanoseconds below one      *)
(* second; the widths are scaled down, the unsigned range ending at U64Max *)
(* and the signed one at I64Max.                                           *)
(* An Option<T> is the empty set (None) or a singleton (Some).             *)
(***************************************************************************)
EXTENDS Integers, Sequences, FiniteSets, TLC

\* ------------------------------------------------------------------ bounds

\* The clock stops advancing at MaxTime.
MaxTime == 2
\* At most MaxRuns calls of run in one behaviour.
MaxRuns == 4
\* The clock advances by at most MaxAdvance during one call.
MaxAdvance == 1

\* When the window is followed on its own, the clock stops at MaxWindowTime
\* and at most MaxPoints points are added.
MaxWindowTime == 4
MaxPoints == 3
\* u64::MAX, scaled down: the largest count of whole seconds of a Duration.
U64Max == 4095
\* The nanoseconds of one millisecond, scaled down.
NanosPerMilli == 10

\* ------------------------------------------------------- configuration space

ErrorThresholds == {0, 1, 2}
ErrorThresholdPercentages == {0, 50, 100}
BucketsInWindow == {0, 1, 2}
BucketSizesInMs == {0, 2}
CircuitOpenMs == {0, 2}

\* The configurations handed to Command::define when the construction
\* itself is followed: window spans within the signed range, beyond it, and
\* beyond the unsigned one.
DefineBucketsInWindow == {1, 2, 1000, 2047}
DefineBucketSizesInMs == {2, 2999, U64Max}

\* The configurations of the window when it is followed on its own.
WindowBucketsInWindow == {0, 1, 2}
WindowBucketSizesInMs == {0, 1, 2}

\* The inputs, the values and the errors of the wrapped operation.
Params == {"i1"}
Values == {"v1"}
OpErrors == {"Internal"}

VARIABLES
    now,                \* the monotonic clock
    config,             \* Config, copied into the breaker at construction
    fallback,           \* Command.fallback is Some
    buckets,            \* Window.buckets, oldest first
    circuit_open_time,  \* CircuitBreaker.circuit_open_time
    hist,               \* what each call of run so far did and returned, in order
    first_run_at,       \* the clock when the first call of run began
    pre,                \* the breaker's state and the clock when the latest call began
    command,            \* what Command::define returned: none yet, the Command or the error
    panicked,           \* a call of run panicked
    recorded,           \* the window followed on its own: its buckets, each point
                        \* replaced by the clock when it was added
    queue,              \* the queued variant: the jobs handed to the pool, oldest first
    channels,           \* the queued variant: per call of run, what was sent on its channel
    threads,            \* per thread followed step by step: where it is in its call
    exclusive           \* the callers hold one lock around the whole of a call

vars == <<now, config, fallback, buckets, circuit_open_time, hist, first_run_at, pre,
          command, panicked, recorded, queue, channels, threads, exclusive>>

\* ------------------------------------------------------------------ helpers

Min(a, b) == IF a < b THEN a ELSE b

Last(s) == s[Len(s)]

RECURSIVE Flatten(_)
Flatten(ss) == IF ss = <<>> THEN <<>> ELSE Head(ss) \o Flatten(Tail(ss))

RECURSIVE Count(_, _)
Count(s, x) ==
    IF s = <<>> THEN 0
    ELSE (IF Head(s) = x THEN 1 ELSE 0) + Count(Tail(s), x)

Ok(v) == [ok |-> TRUE, val |-> v]
Err(e) == [ok |-> FALSE, val |-> e]

\* The tag register_result records for a result.
PointOf(res) == IF res.ok THEN "SUCCESS" ELSE "FAILURE"

\* E::from(CriusError::ExecutionRejected): the caller's conversion.
FromExecutionRejected == "ExecutionRejected"

\* The caller's fallback, a function of the error it is given.
Fallback(e) == IF e = FromExecutionRejected THEN "fb(ExecutionRejected)" ELSE "fb(Internal)"

\* The results the wrapped operation may return for an input.
cmd(param) == {Ok(v) : v \in Values} \cup {Err(e) : e \in OpErrors}

\* ----------------------------------------------------------------- Duration

MillisPerSec == 1000
NanosPerSec == NanosPerMilli * MillisPerSec
\* i64::MAX, on the scale of U64Max.
I64Max == U64Max \div 2

\* Duration::from_millis.
from_millis(ms) ==
    [secs |-> ms \div MillisPerSec, nanos |-> (ms % MillisPerSec) * NanosPerMilli]

\* A slip: the seconds carried from the nanoseconds added unchecked, wrapping.
checked_mul_wrapping_carry(d, rhs) ==
    LET total_nanos == d.nanos * rhs
        extra_secs == total_nanos \div NanosPerSec
        nanos == total_nanos % NanosPerSec
    IN  IF d.secs * rhs > U64Max THEN {}
        ELSE {[secs |-> (d.secs * rhs + extra_secs) % (U64Max + 1), nanos |-> nanos]}

\* Duration::checked_mul(rhs: u32): None when the seconds leave the u64 range.
checked_mul(d, rhs) ==
    LET total_nanos == d.nanos * rhs
        extra_secs == total_nanos \div NanosPerSec
        nanos == total_nanos % NanosPerSec
    IN  IF d.secs * rhs > U64Max THEN {}
        ELSE IF d.secs * rhs + extra_secs > U64Max THEN {}
        ELSE {[secs |-> d.secs * rhs + extra_secs, nanos |-> nanos]}

\* Instant - Duration and Instant + Duration (t an Instant in ms, d a
\* Duration in ms) panic when the seconds of the result leave the i64 range.
instant_sub_panics(t, d) == t - d < (0 - I64Max - 1) * MillisPerSec
instant_add_panics(t, d) == t + d >= (I64Max + 1) * MillisPerSec

\* ------------------------------------------------------------------- Window

\* Window::new: None when the window's span overflows.
Window_new(cfg) ==
    LET bucket_ms == from_millis(cfg.bucket_size_in_ms)
    IN  {[buckets |-> <<>>, bucket_ms |-> bucket_ms, window_size |-> ws,
          buckets_nr |-> cfg.buckets_in_window] :
            ws \in checked_mul(bucket_ms, cfg.buckets_in_window)}

\* self.window_size in ms, for the configuration Window::new accepted.
window_size == config.bucket_size_in_ms * config.buckets_in_window

\* A slip: the window left as it is.
clear_window_kept(bkts) == bkts

clear_window(bkts) == <<>>

\* A slip: the points of every bucket the deque holds, whatever its age.
update_and_get_points_unfiltered(bkts, t) ==
    Flatten([i \in 1 .. Len(bkts) |-> bkts[i].points])

\* The points of the buckets younger than the window, at clock reading t.
update_and_get_points(bkts, t) ==
    LET threshold == t - window_size
    IN  Flatten([i \in 1 .. Len(SelectSeq(bkts, LAMBDA b : b.timestamp > threshold)) |->
                    SelectSeq(bkts, LAMBDA b : b.timestamp > threshold)[i].points])

\* A slip: the new bucket stamped with the reading `now`, not the boundary.
update_window_stamped_now(bkts, t, tnew) ==
    IF bkts # <<>>
    THEN LET threshold == Last(bkts).timestamp + config.bucket_size_in_ms
             pushed == Append(bkts, [points |-> <<>>, timestamp |-> t])
         IN  IF threshold > t THEN bkts
             ELSE IF Len(pushed) > config.buckets_in_window THEN Tail(pushed)
             ELSE pushed
    ELSE Append(bkts, [points |-> <<>>, timestamp |-> tnew])

\* t is the reading `now`, tnew the later reading of Bucket::new().
update_window_returning_latest_bucket(bkts, t, tnew) ==
    IF bkts # <<>>
    THEN LET threshold == Last(bkts).timestamp + config.bucket_size_in_ms
             pushed == Append(bkts, [points |-> <<>>, timestamp |-> threshold])
         IN  IF threshold > t THEN bkts
             ELSE IF Len(pushed) > config.buckets_in_window THEN Tail(pushed)
             ELSE pushed
    ELSE Append(bkts, [points |-> <<>>, timestamp |-> tnew])

add_point(bkts, point, t, tnew) ==
    LET updated == update_window_returning_latest_bucket(bkts, t, tnew)
        n == Len(updated)
    IN  [updated EXCEPT ![n].points = Append(@, point)]

\* -------------------------------------------------------------------- Stats

success_nr(bkts, t) == Count(update_and_get_points(bkts, t), "SUCCESS")

error_nr(bkts, t) == Count(update_and_get_points(bkts, t), "FAILURE")

\* t1 is the reading of the snapshot `points`, t2 that of the count.
success_percentage(bkts, t1, t2) ==
    LET points == update_and_get_points(bkts, t1)
        nr == success_nr(bkts, t2)
    IN  IF nr = 0 THEN 0 ELSE (nr \div Len(points)) * 100

error_percentage(bkts, t1, t2) ==
    LET points == update_and_get_points(bkts, t1)
        nr == error_nr(bkts, t2)
    IN  IF nr = 0 THEN 0 ELSE (nr \div Len(points)) * 100

\* ------------------------------------------------------------------ Breaker

\* CircuitBreaker::new: Closed over the new window, or InvalidConfig.
CircuitBreaker_new(cfg) ==
    IF Window_new(cfg) = {} THEN Err("InvalidConfig")
    ELSE Ok([config |-> cfg, circuit_open_time |-> {},
             window |-> CHOOSE w \in Window_new(cfg) : TRUE])

\* A slip: the open duration added to the clock instead of subtracted.
time_to_close_circuit_added(t) == t + config.circuit_open_ms

time_to_close_circuit(t) == t - config.circuit_open_ms

should_close_open_circuit(cot, t) ==
    \E open_time \in cot : open_time <= time_to_close_circuit(t)

should_keep_circuit_open(cot, t) ==
    \E open_time \in cot : open_time > time_to_close_circuit(t)

\* A slip: the count of failures not tested.
should_open_circuit_pct_only(bkts, t1, t2, t3) ==
    error_percentage(bkts, t1, t2) >= config.error_threshold_percentage

\* A slip: the count compared with > instead of >=.
should_open_circuit_strict(bkts, t1, t2, t3) ==
    LET pct_above_threshold ==
            error_percentage(bkts, t1, t2) >= config.error_threshold_percentage
        count_above_threshold == error_nr(bkts, t3) > config.error_threshold
    IN  pct_above_threshold /\ count_above_threshold

\* A slip: either threshold trips the breaker.
should_open_circuit_either(bkts, t1, t2, t3) ==
    LET pct_above_threshold ==
            error_percentage(bkts, t1, t2) >= config.error_threshold_percentage
        count_above_threshold == error_nr(bkts, t3) >= config.error_threshold
    IN  pct_above_threshold \/ count_above_threshold

should_open_circuit(bkts, t1, t2, t3) ==
    LET pct_above_threshold ==
            error_percentage(bkts, t1, t2) >= config.error_threshold_percentage
        count_above_threshold == error_nr(bkts, t3) >= config.error_threshold
    IN  pct_above_threshold /\ count_above_threshold

\* r holds the six clock readings of the call, in the order the code makes
\* them; a branch that is not taken does not use its readings.
check_command_allowed(cot, bkts, r) ==
    IF should_close_open_circuit(cot, r[1])
    THEN [allowed |-> TRUE, circuit_open_time |-> {}, buckets |-> bkts]
    ELSE IF should_keep_circuit_open(cot, r[2])
    THEN [allowed |-> FALSE, circuit_open_time |-> cot, buckets |-> bkts]
    ELSE IF should_open_circuit(bkts, r[3], r[4], r[5])
    THEN [allowed |-> FALSE, circuit_open_time |-> {r[6]}, buckets |-> clear_window(bkts)]
    ELSE [allowed |-> TRUE, circuit_open_time |-> cot, buckets |-> bkts]

\* A slip: the point added on both arms and once more after the match.
register_result_twice(bkts, res, t, tnew) ==
    IF res.ok THEN add_point(add_point(bkts, "SUCCESS", t, tnew), "SUCCESS", t, tnew)
    ELSE add_point(add_point(bkts, "FAILURE", t, tnew), "FAILURE", t, tnew)

\* A slip: the two arms of the match exchanged.
register_result_swapped(bkts, res, t, tnew) ==
    IF res.ok THEN add_point(bkts, "FAILURE", t, tnew)
    ELSE add_point(bkts, "SUCCESS", t, tnew)

register_result(bkts, res, t, tnew) ==
    IF res.ok THEN add_point(bkts, "SUCCESS", t, tnew)
    ELSE add_point(bkts, "FAILURE", t, tnew)

\* ------------------------------------------------------------------ Command

\* A slip: the configuration's flag ignored.
enabled_always == TRUE

\* self.circuit_breaker.config.circuit_breaker_enabled, as run reads it.
enabled == config.circuit_breaker_enabled

\* What run returns for the operation's result res.
run_result(res) ==
    IF res.ok THEN res
    ELSE IF fallback THEN Ok(Fallback(res.val))
    ELSE res

\* A slip: the rejection returned as an error although a fallback is there.
run_rejected_no_fallback == Err(FromExecutionRejected)

\* A slip: the other variant of CriusError converted.
run_rejected_invalid_config ==
    IF fallback THEN Ok(Fallback(FromExecutionRejected))
    ELSE Err("InvalidConfig")

\* What run returns for a rejected call.
run_rejected ==
    IF fallback THEN Ok(Fallback(FromExecutionRejected))
    ELSE Err(FromExecutionRejected)

\* Command::define / define_with_fallback: a Closed breaker over an empty window.
Init ==
    /\ now = 0
    /\ config \in [error_threshold : ErrorThresholds,
                   error_threshold_percentage : ErrorThresholdPercentages,
                   buckets_in_window : BucketsInWindow,
                   bucket_size_in_ms : BucketSizesInMs,
                   circuit_open_ms : CircuitOpenMs,
                   circuit_breaker_enabled : BOOLEAN]
    /\ fallback \in BOOLEAN
    /\ buckets = <<>>
    /\ circuit_open_time = {}
    /\ hist = <<>>
    /\ first_run_at = {}
    /\ pre = [buckets |-> <<>>, circuit_open_time |-> {}, now |-> 0]
    /\ command = {"Command"}
    /\ panicked = FALSE
    /\ recorded = <<>>
    /\ queue = <<>>
    /\ channels = <<>>
    /\ threads = <<>>
    /\ exclusive = FALSE

\* Before Command::define / define_with_fallback is called with config.
InitDefine ==
    /\ now = 0
    /\ config \in [error_threshold : {1},
                   error_threshold_percentage : {50},
                   buckets_in_window : DefineBucketsInWindow,
                   bucket_size_in_ms : DefineBucketSizesInMs,
                   circuit_open_ms : {2},
                   circuit_breaker_enabled : BOOLEAN]
    /\ fallback \in BOOLEAN
    /\ buckets = <<>>
    /\ circuit_open_time = {}
    /\ hist = <<>>
    /\ first_run_at = {}
    /\ pre = [buckets |-> <<>>, circuit_open_time |-> {}, now |-> 0]
    /\ command = {}
    /\ panicked = FALSE
    /\ recorded = <<>>
    /\ queue = <<>>
    /\ channels = <<>>
    /\ threads = <<>>
    /\ exclusive = FALSE

\* Command::define(config, cmd), and define_with_fallback when a fallback
\* is given: the breaker of CircuitBreaker::new(config)?, or its error.
Define ==
    /\ command = {}
    /\ LET breaker == CircuitBreaker_new(config)
       IN  IF breaker.ok
           THEN /\ command' = {"Command"}
                /\ buckets' = breaker.val.window.buckets
                /\ circuit_open_time' = breaker.val.circuit_open_time
           ELSE /\ command' = {breaker.val}
                /\ UNCHANGED <<buckets, circuit_open_time>>
    /\ UNCHANGED <<now, config, fallback, hist, first_run_at, pre, panicked, recorded,
                   queue, channels, threads,
                   exclusive>>

Snapshot == [buckets |-> buckets, circuit_open_time |-> circuit_open_time, now |-> now]

\* The latest clock reading a call that began at t0 may get.
Horizon(t0) == Min(t0 + MaxAdvance, MaxTime)

\* The clock readings a call that began at t0 may get after a reading of t:
\* any later one when it reads the clock, and t again when it does not.
Reading(t0, t, reads) == IF reads THEN t .. Horizon(t0) ELSE {t}

\* The record of one call of run: its input, what
\* check_command_allowed returned (none when it was not called), what the
\* operation returned (none when it was not invoked), the points handed to
\* register_result, the error handed to the fallback, and what run returned.
Call(param, allowed, outcome, registered, fallback_arg, result) ==
    [param |-> param, allowed |-> allowed, outcome |-> outcome,
     registered |-> registered, fallback_arg |-> fallback_arg, result |-> result]

\* Command::run(param).  r1 .. r6 are the clock readings of
\* check_command_allowed, in the order the code makes them: r1 in
\* should_close_open_circuit and r2 in should_keep_circuit_open (both only
\* when the breaker is Open), r3 .. r5 in should_open_circuit (only when
\* neither held) and r6 when the breaker trips.  r7 and r8 are those of
\* register_result: `now` in update_window_returning_latest_bucket and the
\* timestamp of Bucket::new() (only for an empty window).  The operation
\* runs between r6 and r7.  A clock computation that leaves the range of
\* Instant panics: the call returns nothing.
Run(param) ==
    /\ command = {"Command"}
    /\ ~panicked
    /\ Len(hist) < MaxRuns
    /\ pre' = Snapshot
    /\ first_run_at' = IF hist = <<>> THEN {now} ELSE first_run_at
    /\ UNCHANGED <<config, fallback, command, recorded, queue, channels, threads,
                   exclusive>>
    /\ IF ~enabled
       THEN \E res \in cmd(param), t \in Reading(now, now, TRUE) :
               /\ now' = t
               /\ UNCHANGED <<buckets, circuit_open_time, panicked>>
               /\ hist' = Append(hist, Call(param, {}, {res}, <<>>, {}, res))
       ELSE IF circuit_open_time # {} /\ instant_sub_panics(now, config.circuit_open_ms)
       THEN /\ panicked' = TRUE
            /\ UNCHANGED <<now, buckets, circuit_open_time, hist>>
       ELSE \E r1 \in Reading(now, now, circuit_open_time # {}) :
            \E r2 \in Reading(now, r1, circuit_open_time # {}
                                       /\ ~should_close_open_circuit(circuit_open_time, r1)) :
            LET decided == \/ should_close_open_circuit(circuit_open_time, r1)
                           \/ should_keep_circuit_open(circuit_open_time, r2)
            IN
            \E r3 \in Reading(now, r2, ~decided) :
            IF ~decided /\ instant_sub_panics(r3, window_size)
            THEN /\ panicked' = TRUE
                 /\ now' = r3
                 /\ UNCHANGED <<buckets, circuit_open_time, hist>>
            ELSE
            \E r4 \in Reading(now, r3, ~decided) :
            \E r5 \in Reading(now, r4, ~decided) :
            \E r6 \in Reading(now, r5, ~decided /\ should_open_circuit(buckets, r3, r4, r5)) :
               LET chk == check_command_allowed(circuit_open_time, buckets,
                                                <<r1, r2, r3, r4, r5, r6>>)
               IN  IF chk.allowed
                   THEN \E res \in cmd(param) :
                        \E r7 \in Reading(now, r6, TRUE) :
                        \E r8 \in Reading(now, r7, chk.buckets = <<>>) :
                           IF /\ chk.buckets # <<>>
                              /\ instant_add_panics(Last(chk.buckets).timestamp,
                                                    config.bucket_size_in_ms)
                           THEN /\ panicked' = TRUE
                                /\ now' = r7
                                /\ circuit_open_time' = chk.circuit_open_time
                                /\ UNCHANGED <<buckets, hist>>
                           ELSE
                           /\ panicked' = FALSE
                           /\ buckets' = register_result(chk.buckets, res, r7, r8)
                           /\ circuit_open_time' = chk.circuit_open_time
                           /\ now' = r8
                           /\ hist' = Append(hist,
                                  Call(param, {TRUE}, {res},
                                       <<IF res.ok THEN "SUCCESS" ELSE "FAILURE">>,
                                       IF ~res.ok /\ fallback THEN {res.val} ELSE {},
                                       run_result(res)))
                   ELSE /\ panicked' = FALSE
                        /\ buckets' = chk.buckets
                        /\ circuit_open_time' = chk.circuit_open_time
                        /\ now' = r6
                        /\ hist' = Append(hist,
                                  Call(param, {FALSE}, {}, <<>>,
                                       IF fallback THEN {FromExecutionRejected} ELSE {},
                                       run_rejected))

\* Time passes between two calls.
Tick ==
    /\ now < MaxTime
    /\ now' = now + 1
    /\ UNCHANGED <<config, fallback, buckets, circuit_open_time, hist, first_run_at, pre,
                   command, panicked, recorded, queue, channels, threads,
                   exclusive>>

Next ==
    \/ \E param \in Params : Run(param)
    \/ Tick

Spec == Init /\ [][Next]_vars

\* The construction followed by the calls of run.
NextDefine ==
    \/ Define
    \/ \E param \in Params : Run(param)
    \/ Tick

SpecDefine == InitDefine /\ [][NextDefine]_vars

\* ------------------------------------------------- the window on its own

\* The window of a new breaker, its operations called directly.
InitWindow ==
    /\ now = 0
    /\ config \in [error_threshold : {1},
                   error_threshold_percentage : {50},
                   buckets_in_window : WindowBucketsInWindow,
                   bucket_size_in_ms : WindowBucketSizesInMs,
                   circuit_open_ms : {2},
                   circuit_breaker_enabled : {TRUE}]
    /\ fallback = FALSE
    /\ buckets = <<>>
    /\ circuit_open_time = {}
    /\ hist = <<>>
    /\ first_run_at = {}
    /\ pre = [buckets |-> <<>>, circuit_open_time |-> {}, now |-> 0]
    /\ command = {"Command"}
    /\ panicked = FALSE
    /\ recorded = <<>>
    /\ queue = <<>>
    /\ channels = <<>>
    /\ threads = <<>>
    /\ exclusive = FALSE

WindowReading(t0, t, reads) ==
    IF reads THEN t .. Min(t0 + MaxAdvance, MaxWindowTime) ELSE {t}

\* Window::add_point(point): t is the reading `now`, tnew that of
\* Bucket::new() (only for an empty window); the point is pushed after both.
AddPoint(point) ==
    /\ Len(Flatten([i \in 1 .. Len(buckets) |-> buckets[i].points])) < MaxPoints
    /\ \E t \in WindowReading(now, now, TRUE) :
       \E tnew \in WindowReading(now, t, buckets = <<>>) :
          /\ buckets' = add_point(buckets, point, t, tnew)
          /\ recorded' = add_point(recorded, tnew, t, tnew)
          /\ now' = tnew
    /\ UNCHANGED <<config, fallback, circuit_open_time, hist, first_run_at, pre,
                   command, panicked, queue, channels, threads,
                   exclusive>>

\* Window::clear.
ClearWindow ==
    /\ buckets # <<>>
    /\ buckets' = clear_window(buckets)
    /\ recorded' = clear_window(recorded)
    /\ UNCHANGED <<now, config, fallback, circuit_open_time, hist, first_run_at, pre,
                   command, panicked, queue, channels, threads,
                   exclusive>>

\* Window::update_and_get_points, as every read of the statistics calls it:
\* it reads the clock and leaves the window as it is.  pre keeps the clock
\* reading of the latest read.
GetPoints ==
    /\ \E t \in WindowReading(now, now, TRUE) :
          /\ now' = t
          /\ pre' = [pre EXCEPT !.now = t]
    /\ UNCHANGED <<config, fallback, buckets, circuit_open_time, hist, first_run_at,
                   command, panicked, recorded, queue, channels, threads,
                   exclusive>>

\* Time passes between two operations.
WindowTick ==
    /\ now < MaxWindowTime
    /\ now' = now + 1
    /\ UNCHANGED <<config, fallback, buckets, circuit_open_time, hist, first_run_at, pre,
                   command, panicked, recorded, queue, channels, threads,
                   exclusive>>

NextWindow ==
    \/ \E point \in {"SUCCESS", "FAILURE"} : AddPoint(point)
    \/ ClearWindow
    \/ GetPoints
    \/ WindowTick

SpecWindow == InitWindow /\ [][NextWindow]_vars

\* ------------------------------------ the queued variant (src/src/command/)

\* `as usize` of an i32.
as_usize(n) == IF n >= 0 THEN n ELSE U64Max + 1 + n

\* Window::update_window_returning_latest_bucket of the queued variant.
queued_update_window_returning_latest_bucket(bkts, t, tnew) ==
    IF bkts = <<>>
    THEN Append(bkts, [points |-> <<>>, timestamp |-> tnew])
    ELSE LET latest_bucket_timestamp == Last(bkts).timestamp
             pushed == Append(bkts, [points |-> <<>>,
                                     timestamp |-> latest_bucket_timestamp
                                                   + config.bucket_size_in_ms])
         IN  IF latest_bucket_timestamp + config.bucket_size_in_ms > t THEN bkts
             ELSE IF Len(pushed) > as_usize(config.buckets_in_window) THEN Tail(pushed)
             ELSE pushed

queued_add_point(bkts, point, t, tnew) ==
    LET updated == queued_update_window_returning_latest_bucket(bkts, t, tnew)
    IN  [updated EXCEPT ![Len(updated)].points = Append(@, point)]

\* Window::update_and_get_points of the queued variant: the window is
\* advanced first, then the points of every bucket are returned.
queued_update_and_get_points(bkts, t, tnew) ==
    LET updated == queued_update_window_returning_latest_bucket(bkts, t, tnew)
    IN  [buckets |-> updated,
         points |-> Flatten([i \in 1 .. Len(updated) |-> updated[i].points])]

\* The statistics of the queued variant, each computed over one snapshot.
queued_error_nr(bkts, t, tnew) ==
    LET snapshot == queued_update_and_get_points(bkts, t, tnew)
    IN  [buckets |-> snapshot.buckets, value |-> Count(snapshot.points, "FAILURE")]

queued_error_percentage(bkts, t, tnew) ==
    LET snapshot == queued_update_and_get_points(bkts, t, tnew)
        nr == Count(snapshot.points, "FAILURE")
        total == Len(snapshot.points)
    IN  [buckets |-> snapshot.buckets,
         value |-> IF total = 0 THEN 0 ELSE (nr * 100) \div total]

\* r[3], r[4] are the readings of the first snapshot, r[5] that of the second.
queued_should_open_circuit(bkts, r) ==
    LET pct == queued_error_percentage(bkts, r[3], r[4])
        nr == queued_error_nr(pct.buckets, r[5], r[5])
    IN  [buckets |-> nr.buckets,
         value |-> /\ pct.value >= config.error_threshold_percentage
                   /\ nr.value >= config.error_threshold]

queued_check_command_allowed(cot, bkts, r) ==
    IF should_close_open_circuit(cot, r[1])
    THEN [allowed |-> TRUE, circuit_open_time |-> {}, buckets |-> bkts]
    ELSE IF should_keep_circuit_open(cot, r[2])
    THEN [allowed |-> FALSE, circuit_open_time |-> cot, buckets |-> bkts]
    ELSE IF queued_should_open_circuit(bkts, r).value
    THEN [allowed |-> FALSE, circuit_open_time |-> {r[6]}, buckets |-> <<>>]
    ELSE [allowed |-> TRUE, circuit_open_time |-> cot,
          buckets |-> queued_should_open_circuit(bkts, r).buckets]

queued_register_result(bkts, res, t, tnew) ==
    IF res.ok THEN queued_add_point(bkts, "SUCCESS", t, tnew)
    ELSE queued_add_point(bkts, "FAILURE", t, tnew)

\* The nondecreasing sequences of n clock readings from lo to hi.
RECURSIVE Readings(_, _, _)
Readings(n, lo, hi) ==
    IF n = 0 THEN {<<>>}
    ELSE UNION {{<<t>> \o r : r \in Readings(n - 1, t, hi)} : t \in lo .. hi}

\* A slip: the result dropped instead of sent.
send_dropped(chans, tx, res) == chans

\* Sender::send on the channel of the call tx.
send(chans, tx, res) == [chans EXCEPT ![tx].sent = Append(@, res)]

\* RunnableCommand::new: a Closed breaker, a pool of one worker, no job.
InitQueue ==
    /\ now = 0
    /\ config \in [error_threshold : {1},
                   error_threshold_percentage : {50},
                   buckets_in_window : {1},
                   bucket_size_in_ms : {2},
                   circuit_open_ms : {2},
                   circuit_breaker_enabled : BOOLEAN]
    /\ fallback \in BOOLEAN
    /\ buckets = <<>>
    /\ circuit_open_time = {}
    /\ hist = <<>>
    /\ first_run_at = {}
    /\ pre = [buckets |-> <<>>, circuit_open_time |-> {}, now |-> 0]
    /\ command = {"Command"}
    /\ panicked = FALSE
    /\ recorded = <<>>
    /\ queue = <<>>
    /\ channels = <<>>
    /\ threads = <<>>
    /\ exclusive = FALSE

\* RunnableCommand::run(param): a new channel, the closure handed to the
\* pool, the receiver returned.  backlog is the number of jobs waiting then.
Submit(param) ==
    /\ Len(channels) < MaxRuns
    /\ channels' = Append(channels, [backlog |-> Len(queue), sent |-> <<>>])
    /\ queue' = Append(queue, [param |-> param, tx |-> Len(channels) + 1])
    /\ UNCHANGED <<now, config, fallback, buckets, circuit_open_time, hist, first_run_at,
                   pre, command, panicked, recorded, threads, exclusive>>

\* The pool's worker takes the oldest job and runs its closure: r[1] .. r[6]
\* are the clock readings of check_command_allowed, r[7] and r[8] those of
\* register_result.
Worker ==
    /\ queue # <<>>
    /\ LET job == Head(queue)
       IN  \E r \in Readings(8, now, Horizon(now)) :
           LET chk == queued_check_command_allowed(circuit_open_time, buckets, r)
           IN  /\ circuit_open_time' = chk.circuit_open_time
               /\ now' = r[8]
               /\ IF ~enabled
                  THEN \E res \in cmd(job.param) :
                          /\ buckets' = chk.buckets
                          /\ channels' = send(channels, job.tx, res)
                  ELSE IF chk.allowed
                  THEN \E res \in cmd(job.param) :
                          /\ buckets' = queued_register_result(chk.buckets, res, r[7], r[8])
                          /\ channels' = send(channels, job.tx,
                                              IF fallback /\ ~res.ok
                                              THEN Ok(Fallback(res.val)) ELSE res)
                  ELSE /\ buckets' = chk.buckets
                       /\ channels' = send(channels, job.tx,
                                           IF fallback
                                           THEN Ok(Fallback(FromExecutionRejected))
                                           ELSE Err(FromExecutionRejected))
    /\ queue' = Tail(queue)
    /\ UNCHANGED <<config, fallback, hist, first_run_at, pre, command, panicked, recorded,
                   threads, exclusive>>

NextQueue ==
    \/ \E param \in Params : Submit(param)
    \/ Worker
    \/ Tick

\* A slip: the pool made of two workers.
pool_of_two == {"worker1", "worker2"}

\* ThreadPool::new(1): the threads of the pool.
pool == {"worker1"}

\* A thread between two calls.
Idle == [pc |-> "idle"]

\* The queued variant with the closure followed lock by lock.
InitPool ==
    /\ now = 0
    /\ config \in [error_threshold : {1},
                   error_threshold_percentage : {50},
                   buckets_in_window : {1},
                   bucket_size_in_ms : {2},
                   circuit_open_ms : {2},
                   circuit_breaker_enabled : BOOLEAN]
    /\ fallback \in BOOLEAN
    /\ buckets = <<>>
    /\ circuit_open_time = {}
    /\ hist = <<>>
    /\ first_run_at = {}
    /\ pre = [buckets |-> <<>>, circuit_open_time |-> {}, now |-> 0]
    /\ command = {"Command"}
    /\ panicked = FALSE
    /\ recorded = <<>>
    /\ queue = <<>>
    /\ channels = <<>>
    /\ threads = [w \in pool |-> Idle]
    /\ exclusive = FALSE

\* An idle worker takes the oldest job and begins its closure: under the
\* lock, check_command_allowed (mod.rs:193).
PoolCheck(w) ==
    /\ threads[w] = Idle
    /\ queue # <<>>
    /\ \E r \in Readings(6, now, Horizon(now)) :
       LET chk == queued_check_command_allowed(circuit_open_time, buckets, r)
       IN  /\ circuit_open_time' = chk.circuit_open_time
           /\ buckets' = chk.buckets
           /\ now' = r[6]
           /\ threads' = [threads EXCEPT ![w] = [pc |-> "checked", job |-> Head(queue),
                                                 is_allowed |-> chk.allowed]]
    /\ queue' = Tail(queue)
    /\ UNCHANGED <<config, fallback, hist, first_run_at, pre, command, panicked, recorded,
                   channels, exclusive>>

\* Under the lock again, the operation (mod.rs:195, 198); a disabled
\* breaker's result is sent at once (mod.rs:196).
PoolExecute(w) ==
    /\ threads[w].pc = "checked"
    /\ ~enabled \/ threads[w].is_allowed
    /\ \E res \in cmd(threads[w].job.param) :
          IF ~enabled
          THEN /\ channels' = send(channels, threads[w].job.tx, res)
               /\ threads' = [threads EXCEPT ![w] = Idle]
          ELSE /\ threads' = [threads EXCEPT ![w] = [pc |-> "executed",
                                                     job |-> threads[w].job, res |-> res]]
               /\ UNCHANGED channels
    /\ UNCHANGED <<now, config, fallback, buckets, circuit_open_time, hist, first_run_at,
                   pre, command, panicked, recorded, queue, exclusive>>

\* Under the lock again, register_result (mod.rs:199), then the fallback
\* for an error and the send (mod.rs:201-206).
PoolRegister(w) ==
    /\ threads[w].pc = "executed"
    /\ \E r \in Readings(2, now, Horizon(now)) :
          /\ buckets' = queued_register_result(buckets, threads[w].res, r[1], r[2])
          /\ now' = r[2]
    /\ channels' = send(channels, threads[w].job.tx,
                        IF fallback /\ ~threads[w].res.ok
                        THEN Ok(Fallback(threads[w].res.val)) ELSE threads[w].res)
    /\ threads' = [threads EXCEPT ![w] = Idle]
    /\ UNCHANGED <<config, fallback, circuit_open_time, hist, first_run_at, pre, command,
                   panicked, recorded, queue, exclusive>>

\* A denied call: the rejection through the fallback or as an error
\* (mod.rs:207-214).
PoolReject(w) ==
    /\ threads[w].pc = "checked"
    /\ enabled /\ ~threads[w].is_allowed
    /\ channels' = send(channels, threads[w].job.tx,
                        IF fallback THEN Ok(Fallback(FromExecutionRejected))
                        ELSE Err(FromExecutionRejected))
    /\ threads' = [threads EXCEPT ![w] = Idle]
    /\ UNCHANGED <<now, config, fallback, buckets, circuit_open_time, hist, first_run_at,
                   pre, command, panicked, recorded, queue, exclusive>>

NextPool ==
    \/ \E param \in Params : Submit(param)
    \/ \E w \in DOMAIN threads : PoolCheck(w)
    \/ \E w \in DOMAIN threads : PoolExecute(w)
    \/ \E w \in DOMAIN threads : PoolRegister(w)
    \/ \E w \in DOMAIN threads : PoolReject(w)
    \/ Tick

SpecPool == InitPool /\ [][NextPool]_vars

\* ------------------------------------- two callers of one Command::run

\* The threads that call run on the same Command.
callers == {"caller1", "caller2"}

\* Two threads call Command::run on one Command, each call followed step by
\* step: check_command_allowed, the operation, register_result.  With
\* exclusive, a call begins only when no other call is in progress.  The
\* bucket outlasts the clock, so that no point leaves the window.
InitRace ==
    /\ now = 0
    /\ config \in [error_threshold : {1, 2},
                   error_threshold_percentage : {50, 100},
                   buckets_in_window : {1},
                   bucket_size_in_ms : {MaxTime + 1},
                   circuit_open_ms : {2},
                   circuit_breaker_enabled : {TRUE}]
    /\ fallback = FALSE
    /\ buckets = <<>>
    /\ circuit_open_time = {}
    /\ hist = <<>>
    /\ first_run_at = {}
    /\ pre = [buckets |-> <<>>, circuit_open_time |-> {}, now |-> 0]
    /\ command = {"Command"}
    /\ panicked = FALSE
    /\ recorded = <<>>
    /\ queue = <<>>
    /\ channels = <<>>
    /\ threads = [c \in callers |-> Idle]
    /\ exclusive \in BOOLEAN

\* The calls begun so far: those returned or past the operation, and those
\* allowed and not yet executed.
Begun == Len(hist) + Cardinality({c \in DOMAIN threads : threads[c].pc = "checked"})

\* run: check_command_allowed (command.rs:117); a denied call returns the
\* rejection at once (command.rs:133-144).
CallerCheck(c, param) ==
    /\ threads[c] = Idle
    /\ Begun < MaxRuns
    /\ exclusive => \A d \in DOMAIN threads : threads[d] = Idle
    /\ \E r \in Readings(6, now, Horizon(now)) :
       LET chk == check_command_allowed(circuit_open_time, buckets, r)
       IN  /\ circuit_open_time' = chk.circuit_open_time
           /\ buckets' = chk.buckets
           /\ now' = r[6]
           /\ IF chk.allowed
              THEN /\ threads' = [threads EXCEPT ![c] = [pc |-> "checked", param |-> param]]
                   /\ UNCHANGED hist
              ELSE /\ UNCHANGED threads
                   /\ hist' = Append(hist, Call(param, {FALSE}, {}, <<>>, {}, run_rejected))
    /\ UNCHANGED <<config, fallback, first_run_at, pre, command, panicked, recorded, queue,
                   channels, exclusive>>

\* run: the operation (command.rs:119).
CallerExecute(c) ==
    /\ threads[c].pc = "checked"
    /\ \E res \in cmd(threads[c].param) :
          /\ threads' = [threads EXCEPT ![c] = [pc |-> "executed", res |-> res]]
          /\ hist' = Append(hist, Call(threads[c].param, {TRUE}, {res}, <<PointOf(res)>>,
                                       {}, run_result(res)))
    /\ UNCHANGED <<now, config, fallback, buckets, circuit_open_time, first_run_at, pre,
                   command, panicked, recorded, queue, channels, exclusive>>

\* run: register_result (command.rs:120), then the result is returned.
CallerRegister(c) ==
    /\ threads[c].pc = "executed"
    /\ \E r \in Readings(2, now, Horizon(now)) :
          /\ buckets' = register_result(buckets, threads[c].res, r[1], r[2])
          /\ now' = r[2]
    /\ threads' = [threads EXCEPT ![c] = Idle]
    /\ UNCHANGED <<config, fallback, circuit_open_time, hist, first_run_at, pre, command,
                   panicked, recorded, queue, channels, exclusive>>

NextRace ==
    \/ \E c \in DOMAIN threads, param \in Params : CallerCheck(c, param)
    \/ \E c \in DOMAIN threads : CallerExecute(c)
    \/ \E c \in DOMAIN threads : CallerRegister(c)
    \/ Tick

SpecRace == InitRace /\ [][NextRace]_vars

\* A step of the worker as the queue shows it: the oldest job is taken.
\* Worker is the only action that shortens the queue, and it can always take
\* a waiting job.
Dequeue == queue # <<>> /\ queue' = Tail(queue)

\* The pool's worker thread keeps running: a waiting job is taken.
SpecQueue == InitQueue /\ [][NextQueue]_vars /\ WF_queue(Dequeue)

\* ------------------------------------------------------- reading the history

\* The latest call of run, and what it did.
Called == hist # <<>>
LastCall == hist[Len(hist)]
Checked == Called /\ LastCall.allowed # {}
Allowed == Called /\ LastCall.allowed = {TRUE}
Denied == Called /\ LastCall.allowed = {FALSE}
WasClosed == pre.circuit_open_time = {}
WasOpen == pre.circuit_open_time # {}

\* The instants of the latest call, from its beginning to its return.
During == pre.now .. now

\* The statistics the specification defines over the snapshot at time t:
\* the counts of each tag and failures * 100 / total (0 for an empty one).
Total(bkts, t) == Len(update_and_get_points(bkts, t))
FailureCount(bkts, t) == Count(update_and_get_points(bkts, t), "FAILURE")
SuccessCount(bkts, t) == Count(update_and_get_points(bkts, t), "SUCCESS")
FailurePercentage(bkts, t) ==
    IF Total(bkts, t) = 0 THEN 0 ELSE (FailureCount(bkts, t) * 100) \div Total(bkts, t)

\* Every point the window holds, retained by the snapshot or not.
AllPoints(bkts) == Flatten([i \in 1 .. Len(bkts) |-> bkts[i].points])

\* The operation failed every time it was invoked.
AlwaysFails == \A k \in 1 .. Len(hist) : \A res \in hist[k].outcome : ~res.ok

\* Every call so far was made within one bucket interval of the first.
WithinOneBucket ==
    \A t \in first_run_at : now < t + config.bucket_size_in_ms

\* Calls 1 .. N ran the operation and returned its own error; call N + 1 did
\* not run it and returned the rejected-execution error.
TripsAfterThreshold ==
    \A k \in 1 .. Len(hist) :
        /\ k <= config.error_threshold =>
              /\ hist[k].outcome # {}
              /\ hist[k].result \in hist[k].outcome
              /\ ~hist[k].result.ok
        /\ k = config.error_threshold + 1 =>
              /\ hist[k].outcome = {}
              /\ hist[k].result = Err(FromExecutionRejected)

\* ------------------------------------------------------------------- claims

\* C1 as stated: for an enabled breaker without fallback, error_threshold
\* N >= 1, error_threshold_percentage <= 100 and an operation that always
\* fails, N + 1 calls of run within one bucket interval of the first give the
\* operation's own error N times and then the rejected-execution error.
C1_AsStated ==
    (/\ enabled /\ ~fallback /\ Called
     /\ config.error_threshold >= 1
     /\ config.error_threshold_percentage <= 100
     /\ AlwaysFails /\ WithinOneBucket)
    => TripsAfterThreshold

\* C1 amended: the same, for a window of at least one bucket
\* (buckets_in_window >= 1); a window of no bucket retains no sample.
C1_RejectsAfterThreshold ==
    (/\ enabled /\ ~fallback /\ Called
     /\ config.error_threshold >= 1
     /\ config.error_threshold_percentage <= 100
     /\ config.buckets_in_window >= 1
     /\ AlwaysFails /\ WithinOneBucket)
    => TripsAfterThreshold

C1_Witness ==
    /\ enabled /\ ~fallback
    /\ config.error_threshold = 2 /\ config.error_threshold_percentage = 50
    /\ config.buckets_in_window >= 1
    /\ AlwaysFails /\ WithinOneBucket
    /\ Len(hist) = 3
    /\ hist[3].result = Err(FromExecutionRejected)
    /\ circuit_open_time # {}

\* C2: when check_command_allowed is called on a Closed breaker whose failure
\* count is >= error_threshold and whose failure percentage, failures * 100 /
\* total over the snapshot, is >= error_threshold_percentage throughout the
\* call, it returns false and the breaker is Open.
C2_TripsOnBothThresholds ==
    (/\ Checked /\ WasClosed
     /\ \A t \in During :
           /\ FailureCount(pre.buckets, t) >= config.error_threshold
           /\ FailurePercentage(pre.buckets, t) >= config.error_threshold_percentage)
    => (Denied /\ circuit_open_time # {})

\* C3: when check_command_allowed is called on an Open breaker and the time
\* since the trip stays below circuit_open_ms throughout the call, it
\* returns false and leaves circuit_open_time as it was.
C3_StaysOpenBeforeTimeout ==
    (/\ Checked /\ WasOpen
     /\ \A open_time \in pre.circuit_open_time : now - open_time < config.circuit_open_ms)
    => (Denied /\ circuit_open_time = pre.circuit_open_time)

C3_Witness ==
    /\ Checked /\ WasOpen /\ Denied
    /\ \A open_time \in pre.circuit_open_time :
          /\ pre.now > open_time
          /\ now - open_time < config.circuit_open_ms
    /\ circuit_open_time = pre.circuit_open_time

\* C4: when check_command_allowed is called on an Open breaker at or after
\* circuit_open_ms since the trip, it returns true, the breaker is Closed,
\* and the failure and success counts are both 0 at that moment.
C4_ClosesEmptyAfterTimeout ==
    (/\ Checked /\ WasOpen
     /\ \A open_time \in pre.circuit_open_time :
           pre.now - open_time >= config.circuit_open_ms)
    => /\ Allowed
       /\ circuit_open_time = {}
       /\ FailureCount(pre.buckets, pre.now) = 0
       /\ SuccessCount(pre.buckets, pre.now) = 0

\* C5: when check_command_allowed is called on a Closed breaker whose failure
\* count is below error_threshold or whose failure percentage is below
\* error_threshold_percentage, throughout the call, it returns true and the
\* breaker stays Closed.
C5_AllowsBelowThresholds ==
    (/\ Checked /\ WasClosed
     /\ \A t \in During :
           \/ FailureCount(pre.buckets, t) < config.error_threshold
           \/ FailurePercentage(pre.buckets, t) < config.error_threshold_percentage)
    => (Allowed /\ circuit_open_time = {})

C5_Witness ==
    /\ Checked /\ WasClosed /\ Allowed
    /\ FailureCount(pre.buckets, pre.now) >= config.error_threshold
    /\ FailureCount(pre.buckets, pre.now) >= 1
    /\ \A t \in During :
          FailurePercentage(pre.buckets, t) < config.error_threshold_percentage
    /\ circuit_open_time = {}

\* C6 as stated: with a fallback configured, run never returns an error,
\* for every configuration and breaker state.
C6_AsStated ==
    fallback => \A k \in 1 .. Len(hist) : hist[k].result.ok

\* C6 amended: with a fallback configured and the breaker enabled, run never
\* returns an error: a failure of the operation is returned as
\* Ok(fallback(error)) and a rejected call as Ok(fallback(rejected)).
C6_FallbackAbsorbsErrors ==
    (fallback /\ enabled) =>
        \A k \in 1 .. Len(hist) :
            /\ hist[k].result.ok
            /\ \A res \in hist[k].outcome :
                  ~res.ok => /\ hist[k].result = Ok(Fallback(res.val))
                             /\ hist[k].fallback_arg = {res.val}
            /\ hist[k].allowed = {FALSE} =>
                  /\ hist[k].result = Ok(Fallback(FromExecutionRejected))
                  /\ hist[k].fallback_arg = {FromExecutionRejected}

C6_Witness ==
    /\ fallback /\ enabled
    /\ Len(hist) >= 2
    /\ \E k \in 1 .. Len(hist) :
          hist[k].outcome = {Err("Internal")} /\ hist[k].result = Ok(Fallback("Internal"))
    /\ Denied
    /\ LastCall.result = Ok(Fallback(FromExecutionRejected))

\* C7: when the breaker is enabled and check_command_allowed denies a call,
\* run does not invoke the operation; without a fallback it returns Err of
\* the rejected-execution error converted into the caller's error type.
C7_DeniedCallIsRejected ==
    \A k \in 1 .. Len(hist) :
        (enabled /\ hist[k].allowed = {FALSE}) =>
            /\ hist[k].outcome = {}
            /\ hist[k].registered = <<>>
            /\ ~fallback => hist[k].result = Err(FromExecutionRejected)

C7_Witness ==
    /\ enabled /\ ~fallback /\ Denied
    /\ LastCall.outcome = {}
    /\ LastCall.result = Err(FromExecutionRejected)

\* C8: when circuit_breaker_enabled is false, every run invokes the
\* operation once and returns its result verbatim, whatever the earlier
\* results, and neither circuit_open_time nor the window's buckets change.
C8_DisabledBypassesBreaker ==
    ~config.circuit_breaker_enabled =>
        /\ buckets = <<>>
        /\ circuit_open_time = {}
        /\ \A k \in 1 .. Len(hist) :
              /\ hist[k].outcome = {hist[k].result}
              /\ hist[k].allowed = {}
              /\ hist[k].registered = <<>>
              /\ hist[k].fallback_arg = {}

C8_Witness ==
    /\ ~config.circuit_breaker_enabled
    /\ config.error_threshold = 1
    /\ Len(hist) = 3
    /\ \A k \in 1 .. 3 : hist[k].result = Err("Internal")
    /\ buckets = <<>> /\ circuit_open_time = {}

\* C9: when the breaker allows a call and the operation succeeds with value
\* v, run returns Ok(v) unchanged, the fallback is not invoked and exactly
\* one Success sample is recorded; every such run returns the operation's
\* value.
C9_SuccessIsReturned ==
    /\ \A k \in 1 .. Len(hist) : \A res \in hist[k].outcome :
          (hist[k].allowed = {TRUE} /\ res.ok) =>
              /\ hist[k].result = res
              /\ hist[k].fallback_arg = {}
              /\ hist[k].registered = <<"SUCCESS">>
    /\ \A res \in (IF Called THEN LastCall.outcome ELSE {}) :
          (Allowed /\ res.ok) =>
              /\ buckets # <<>>
              /\ Last(buckets).points # <<>>
              /\ Last(Last(buckets).points) = "SUCCESS"
              /\ Len(AllPoints(buckets)) <= Len(AllPoints(pre.buckets)) + 1
              /\ Len(Last(buckets).points) = 1
                    \/ (/\ pre.buckets # <<>>
                        /\ Last(buckets).timestamp = Last(pre.buckets).timestamp
                        /\ Last(buckets).points = Append(Last(pre.buckets).points, "SUCCESS"))

C9_Witness ==
    /\ fallback /\ Allowed
    /\ Len(hist) = 2
    /\ \A k \in 1 .. 2 : hist[k].outcome = {Ok("v1")} /\ hist[k].result = Ok("v1")
    /\ Len(AllPoints(buckets)) = 2
    /\ Count(AllPoints(buckets), "SUCCESS") = 2

\* C10: over the snapshot of every window the breaker reaches,
\* error_percentage() + success_percentage() = 100 when the snapshot holds a
\* sample, and both are 0 when it holds none.
C10_PercentagesSumTo100 ==
    IF Total(buckets, now) > 0
    THEN error_percentage(buckets, now, now) + success_percentage(buckets, now, now) = 100
    ELSE error_percentage(buckets, now, now) = 0 /\ success_percentage(buckets, now, now) = 0

\* C11: over the snapshot of every window the breaker reaches,
\* success_percentage() and error_percentage() are (count * 100) / total in
\* integer arithmetic, 0 for an empty snapshot: 1 failure in 2 samples is 50.
SuccessPercentage(bkts, t) ==
    IF Total(bkts, t) = 0 THEN 0 ELSE (SuccessCount(bkts, t) * 100) \div Total(bkts, t)

C11_PercentagesMultiplyFirst ==
    /\ error_percentage(buckets, now, now) = FailurePercentage(buckets, now)
    /\ success_percentage(buckets, now, now) = SuccessPercentage(buckets, now)

\* C13: the window never holds more than buckets_in_window buckets, for
\* every configuration, buckets_in_window = 0 included.
C13_BucketsWithinCapacity ==
    Len(buckets) <= config.buckets_in_window

\* C14: the timestamps of the window's buckets increase strictly from the
\* oldest to the newest, for every configuration, bucket_size_in_ms = 0
\* included.
C14_TimestampsStrictlyIncrease ==
    \A i, j \in 1 .. Len(buckets) :
        i < j => buckets[i].timestamp < buckets[j].timestamp

\* C16: a call of run changes circuit_open_time only by the Closed -> Open
\* transition of check_command_allowed (None to Some, the call denied) or by
\* its Open -> Closed transition (Some to None, the call allowed); nothing
\* else in run (the operation, register_result, the fallback) changes it.
C16_OpenTimeChangesOnlyOnTransitions ==
    (Called /\ circuit_open_time # pre.circuit_open_time) =>
        \/ WasClosed /\ circuit_open_time # {} /\ Denied
        \/ WasOpen /\ circuit_open_time = {} /\ Allowed

\* C17: in every run on an enabled breaker the operation is invoked at most
\* once; register_result is called once, with the operation's result, when
\* check_command_allowed returned true, and not at all when it denied the
\* call: the window gains exactly that one point, or none.
C17_RegistersOncePerAllowedCall ==
    /\ \A k \in 1 .. Len(hist) :
          enabled =>
              /\ Cardinality(hist[k].outcome) <= 1
              /\ hist[k].allowed = {TRUE} =>
                    /\ Cardinality(hist[k].outcome) = 1
                    /\ \A res \in hist[k].outcome : hist[k].registered = <<PointOf(res)>>
              /\ hist[k].allowed = {FALSE} =>
                    /\ hist[k].outcome = {}
                    /\ hist[k].registered = <<>>
    /\ (enabled /\ Allowed) =>
          \A res \in LastCall.outcome :
              \/ /\ pre.buckets # <<>>
                 /\ buckets = [pre.buckets EXCEPT ![Len(pre.buckets)].points =
                                                      Append(@, PointOf(res))]
              \/ /\ buckets # <<>>
                 /\ Last(buckets).points = <<PointOf(res)>>
                 /\ \A i \in 1 .. Len(buckets) - 1 : \E j \in 1 .. Len(pre.buckets) :
                       buckets[i] = pre.buckets[j]
    /\ (enabled /\ Denied) => buckets \in {pre.buckets, <<>>}

C17_Witness ==
    /\ enabled /\ Allowed
    /\ Len(hist) = 3
    /\ hist[2].allowed = {FALSE}
    /\ LastCall.registered = <<"FAILURE">>
    /\ AllPoints(buckets) = <<"FAILURE">>

\* C20: the call of check_command_allowed that trips the breaker returns
\* false for that call, sets circuit_open_time to the current time and
\* clears the statistics: right after it the window holds no bucket and
\* both counts are 0.
C20_TripDeniesAndClears ==
    [][(hist' # hist /\ circuit_open_time' # {} /\ circuit_open_time' # circuit_open_time) =>
          /\ Last(hist').allowed = {FALSE}
          /\ circuit_open_time' = {now'}
          /\ buckets' = <<>>
          /\ error_nr(buckets', now') = 0
          /\ success_nr(buckets', now') = 0]_vars

C20_Witness ==
    /\ WasClosed /\ Denied
    /\ circuit_open_time = {now}
    /\ now > 0
    /\ pre.buckets # <<>>
    /\ error_nr(pre.buckets, pre.now) >= 2
    /\ buckets = <<>>

\* The span bucket_size_in_ms * buckets_in_window lies beyond the largest
\* Duration: U64Max whole seconds and a fraction of a second.
Overflows(cfg) ==
    (cfg.bucket_size_in_ms * cfg.buckets_in_window) \div MillisPerSec > U64Max

C18_RunNeverAborts ==
    command = {"Command"} => ~panicked

\* The clock readings at which the points of the snapshot at time t were
\* added, in the snapshot's order.
SnapshotRecordedAt(t) == update_and_get_points(recorded, t)

\* C15: at every time the snapshot read for the statistics holds no point
\* added more than buckets_in_window * bucket_size_in_ms before now,
\* whatever advances and idle gaps came before.
C15_SnapshotHoldsNoStalePoint ==
    /\ Len(SnapshotRecordedAt(now)) = Len(update_and_get_points(buckets, now))
    /\ \A k \in 1 .. Len(SnapshotRecordedAt(now)) :
          now - SnapshotRecordedAt(now)[k] <= window_size

\* After an idle gap: the deque still holds a bucket older than the window
\* next to one the snapshot keeps.
C15_Witness ==
    /\ \E i \in 1 .. Len(buckets) : buckets[i].timestamp <= now - window_size
    /\ \E k \in 1 .. Len(SnapshotRecordedAt(now)) : SnapshotRecordedAt(now)[k] < now

\* C19: in the queued variant every call of run gets exactly one result on
\* the receiver it returned, however many calls were submitted before any
\* result was read: at most one result is ever sent on a channel, and one
\* is sent eventually.
C19_EveryRunDeliversOneResult ==
    /\ [](\A k \in 1 .. Len(channels) : Len(channels[k].sent) <= 1)
    /\ \A k \in 1 .. MaxRuns :
          (Len(channels) >= k) ~> (Len(channels) >= k /\ Len(channels[k].sent) = 1)

\* The last call was submitted with every earlier one still waiting, and
\* each has its result.
C19_Witness ==
    /\ Len(channels) = MaxRuns
    /\ channels[MaxRuns].backlog = MaxRuns - 1
    /\ \A k \in 1 .. MaxRuns : Len(channels[k].sent) = 1
    /\ queue = <<>>

\* The calls at the end of h, after its last denied call, whose failing
\* operation was executed and recorded.
RECURSIVE FailuresSinceDenied(_)
FailuresSinceDenied(h) ==
    IF h = <<>> \/ Last(h).allowed = {FALSE} THEN 0
    ELSE (IF Last(h).registered = <<"FAILURE">> THEN 1 ELSE 0)
         + FailuresSinceDenied(SubSeq(h, 1, Len(h) - 1))

\* The latest call set circuit_open_time: it tripped the breaker.
Tripped == Called /\ circuit_open_time # {} /\ circuit_open_time # pre.circuit_open_time

\* C24: there is no half-open state.  The call that closes the breaker is
\* an ordinary one: the operation is executed, its result recorded and
\* returned as for any allowed call.  For error_threshold >= 1 a call trips
\* the breaker only when at least error_threshold failing operations have
\* been executed and recorded since the previous trip (counted here since
\* the latest denied call, which is the trip or comes after it).
C24_NoHalfOpenState ==
    /\ (Called /\ WasOpen /\ circuit_open_time = {}) =>
          /\ Allowed
          /\ \A res \in LastCall.outcome :
                /\ LastCall.registered = <<PointOf(res)>>
                /\ LastCall.result = run_result(res)
                /\ AllPoints(buckets) # <<>>
          /\ LastCall.outcome # {}
    /\ (config.error_threshold >= 1 /\ Tripped) =>
          FailuresSinceDenied(SubSeq(hist, 1, Len(hist) - 1)) >= config.error_threshold

\* The breaker trips a second time, after the call that closed it failed.
C24_Witness ==
    /\ config.error_threshold >= 1
    /\ Len(hist) = 4
    /\ hist[2].allowed = {FALSE}
    /\ hist[3].allowed = {TRUE} /\ hist[3].registered = <<"FAILURE">>
    /\ Tripped
    /\ WasClosed

\* C25: whenever check_command_allowed returned true the breaker is Closed
\* (circuit_open_time = None) when the call returns, also when the clock
\* advances between the clock reads of one call.
C25_AllowedMeansClosed ==
    Allowed => circuit_open_time = {}

\* C27: whenever the breaker is Open (circuit_open_time is Some) the window
\* holds no point: nothing is recorded between a trip and the call that
\* closes the breaker.
C27_OpenWindowIsEmpty ==
    (enabled /\ circuit_open_time # {}) => AllPoints(buckets) = <<>>

\* The timestamps of the buckets, oldest first.
Stamps(bkts) == [i \in 1 .. Len(bkts) |-> bkts[i].timestamp]

\* C21: an advance of the window appends at most one bucket: none while
\* now is before the newest bucket's timestamp + bucket_size_in_ms, else
\* exactly one, stamped at that boundary and not at now, so that consecutive
\* buckets differ by exactly bucket_size_in_ms whatever the gap; the bucket
\* of an empty window is stamped at the current time.
C21_OneBucketPerAdvance ==
    /\ [](\A i \in 1 .. Len(buckets) - 1 :
             buckets[i + 1].timestamp = buckets[i].timestamp + config.bucket_size_in_ms)
    /\ [][(buckets' # buckets /\ buckets' # <<>>) =>
             IF buckets = <<>>
             THEN Stamps(buckets') = <<now'>>
             ELSE LET boundary == Last(buckets).timestamp + config.bucket_size_in_ms
                      pushed == Append(Stamps(buckets), boundary)
                  IN  \/ Stamps(buckets') = Stamps(buckets) /\ boundary > now
                      \/ /\ Stamps(buckets') \in {pushed, Tail(pushed)}
                         /\ boundary <= now']_vars

\* A point added after a gap of several intervals, in a bucket stamped one
\* interval after the previous one.
C21_Witness ==
    /\ config.bucket_size_in_ms >= 1
    /\ Len(buckets) = 2
    /\ \E k \in 1 .. Len(recorded[2].points) :
          recorded[2].points[k] >= buckets[2].timestamp + 2 * config.bucket_size_in_ms

\* C22: a read of the snapshot or of a statistic first advances or creates
\* the window's current bucket: after a read of an empty or stale window a
\* current bucket is in place.
C22_ReadsAdvanceTheWindow ==
    [][pre'.now # pre.now =>
          /\ buckets' # <<>>
          /\ Last(buckets').timestamp + config.bucket_size_in_ms > pre'.now]_vars

\* C26: a point just added is counted by a read made right afterwards at
\* the same time, whatever the idle gap before it, for every window with a
\* span of at least one millisecond.
C26_AddedPointIsCounted ==
    [][(window_size >= 1 /\ buckets' # buckets /\ buckets' # <<>>) =>
          Count(update_and_get_points(buckets', now'), Last(Last(buckets').points)) >= 1]_vars

\* The calls whose closure has begun and has not sent its result yet.
InProgress == {w \in DOMAIN threads : threads[w] # Idle}

\* C28: in the queued variant the single worker processes the calls one at
\* a time in the order of submission: the steps of one call (check, execute,
\* register) never interleave with those of another although the lock is
\* released between them.  At most one call is in progress, every call
\* submitted before it has its result and every later one is still waiting.
C28_RunsAreProcessedOneAtATime ==
    /\ Cardinality(InProgress) <= 1
    /\ \A k \in 1 .. Len(channels) : Len(channels[k].sent) <= 1
    /\ \A j, k \in 1 .. Len(channels) :
          (j < k /\ channels[k].sent # <<>>) => channels[j].sent # <<>>
    /\ \A w \in InProgress :
          /\ channels[threads[w].job.tx].sent = <<>>
          /\ \A j \in 1 .. threads[w].job.tx - 1 : channels[j].sent # <<>>
          /\ \A i \in 1 .. Len(queue) : queue[i].tx > threads[w].job.tx

\* Between two steps of one call, the lock free, with a later call waiting
\* and an earlier one answered.
C28_Witness ==
    /\ \E w \in InProgress : threads[w].pc = "executed" /\ threads[w].job.tx = 2
    /\ queue # <<>>
    /\ channels[1].sent # <<>>

\* The operations executed so far, and no call denied yet: the breaker
\* has not opened.
Executed == Len(SelectSeq(hist, LAMBDA call : call.outcome # {}))
NeverDenied == \A k \in 1 .. Len(hist) : hist[k].allowed # {FALSE}

\* C23: when every call of run is made under one lock around its check,
\* operation and register_result, no more failing operations than
\* error_threshold execute before the breaker opens, and no two calls are
\* in progress at once; without the lock two callers can both be allowed
\* before either has recorded its result (the witness).
C23_ExclusiveCallsTripAtThreshold ==
    exclusive =>
        /\ Cardinality(InProgress) <= 1
        /\ (AlwaysFails /\ NeverDenied) => Executed <= config.error_threshold

\* Without the lock: both callers were allowed before either recorded, and
\* more failing operations than error_threshold have executed with the
\* breaker still Closed.
C23_Witness ==
    /\ ~exclusive
    /\ AlwaysFails /\ NeverDenied
    /\ circuit_open_time = {}
    /\ Executed > config.error_threshold
    /\ Cardinality(InProgress) = 2

====
